---- MODULE Spec2Model ----
(***************************************************************************)
(* Webhook reconciliation of construye-tu-futuro-backend.                  *)
(*                                                                         *)
(* The repository holds several variants of one Express server.  Each of   *)
(* them is a program of its own; `variant` says which one is running:      *)
(*   "folded"    src/server.js:309          POST /stripe-webhook           *)
(*               (users table with the plan folded in, webhook_events      *)
(*               ledger; part_002 and part_003 carry the same handler)     *)
(*   "mailonly"  src/server.js:521          POST /webhook (email only)     *)
(*   "mailonly4" src/unnamed/part_004:24    POST /webhook (email only)     *)
(*   "subtable"  src/unnamed/part_000:114   POST /webhook (subscriptions)  *)
(*   "subtable1" src/unnamed/part_001:119   POST /webhook (subscriptions)  *)
(*                                                                         *)
(* A delivery is a request in flight.  Its handler is an async function:   *)
(* the code between two awaits runs atomically, and every await of a store *)
(* query, of a billing-provider lookup or of an email send is one step, so *)
(* that two deliveries interleave exactly at the awaits.                   *)
(***************************************************************************)
EXTENDS Integers, FiniteSets, Sequences, TLC

VARIABLES
    variant,          \* which server variant is running
    env,              \* process.env as the variant reads it
    users,            \* table users
    subscriptions,    \* table subscriptions (subscription-table variants)
    webhook_events,   \* table webhook_events (the idempotency ledger)
    now,              \* the clock (NOW() in SQL, Date.now() in the server)
    req,              \* the deliveries in flight, one per slot
    last,             \* the delivery answered most recently, with its response
    delivered,        \* number of deliveries received so far
    mailLog,          \* history: email attempts per event id
    acked,            \* history: event ids answered 200
    canceledAt,       \* history: per subscription, when its deletion was acknowledged
    auth,             \* the response of the latest /auth/login or /auth/check
    checkout          \* the response of the latest /create-checkout-session

vars == <<variant, env, users, subscriptions, webhook_events, now, req, last,
          delivered, mailLog, acked, canceledAt, auth, checkout>>

(***************************************************************************)
(* Bounds of the model.                                                    *)
(***************************************************************************)
MaxDeliveries == 3
MaxTime == 2

\* the slots of deliveries handled at the same time
Procs == {1, 2}

(***************************************************************************)
(* Values.                                                                 *)
(***************************************************************************)
NULL == "null"
NullTs == -1          \* SQL NULL / JS null in a timestamp column
NoSec == 0            \* a missing or zero unix-seconds field of the provider
NoResponse == 0       \* no HTTP response written
HandlerFailed == 500
SignatureFailed == 400
Received == 200

Variants == {"folded", "mailonly", "mailonly4", "subtable", "subtable1"}
StoreVariants == {"folded", "subtable", "subtable1"}
\* "folded2": src/unnamed/part_002:466 POST /stripe-webhook, the folded-user
\* handler that also keeps the user's language
FoldedVariants == {"folded", "folded2"}
TableVariants == {"subtable", "subtable1"}

Modes == {"test", "live"}
SecretTest == "whsec_test"
SecretLive == "whsec_live"
Signatures == {SecretTest, SecretLive, "forged"}

Emails == {"a@x.com", "A@x.com"}
SubIds == {"sub_1", "sub_2"}

\* String.prototype.toLowerCase on the addresses of the model
toLowerCase(s) == IF s = "A@x.com" THEN "a@x.com"
                  ELSE IF s = "DKK" THEN "dkk"
                  ELSE IF s = "TRIALING" THEN "trialing"
                  ELSE IF s = "Premium" THEN "premium"
                  ELSE IF s = "Starter" THEN "starter"
                  ELSE s

\* what stripe.subscriptions.retrieve may report: <<status, current_period_end>>
ProviderAnswers == {<<"active", 3>>, <<"active", 1>>, <<"active", NoSec>>,
                    <<"canceled", 3>>}


(***************************************************************************)
(* The events the billing provider can deliver.  An event id names one     *)
(* payload: a redelivery carries the same id and the same content.         *)
(*   email        customer_details.email || customer_email of a session    *)
(*   metaEmail    metadata.email of a session                              *)
(*   plan         metadata.plan                                            *)
(*   subscription session.subscription, or the id of a subscription object *)
(*   customer     the customer id of the object                            *)
(*   status, period_end, price   fields of a subscription object           *)
(***************************************************************************)
Event(id, type, email, metaEmail, plan, subscription, customer, status, period_end, price) ==
    [id |-> id, type |-> type, email |-> email, metaEmail |-> metaEmail,
     plan |-> plan, subscription |-> subscription, customer |-> customer,
     status |-> status, period_end |-> period_end, price |-> price]

CoreEvents == {
    Event("evt_co", "checkout.session.completed", "a@x.com", NULL, "starter",
          "sub_1", "cus_1", NULL, NoSec, NULL),
    Event("evt_co_up", "checkout.session.completed", "A@x.com", NULL, "Premium",
          "sub_2", "cus_1", NULL, NoSec, NULL),
    Event("evt_co_noemail", "checkout.session.completed", NULL, NULL, "starter",
          "sub_1", "cus_1", NULL, NoSec, NULL),
    Event("evt_co_nosub", "checkout.session.completed", "a@x.com", NULL, "starter",
          NULL, "cus_1", NULL, NoSec, NULL),
    Event("evt_upd", "customer.subscription.updated", NULL, NULL, NULL,
          "sub_1", "cus_1", "active", 3, "price_premium_eur_test"),
    Event("evt_del", "customer.subscription.deleted", NULL, NULL, NULL,
          "sub_1", "cus_1", "canceled", 3, NULL),
    Event("evt_del_nocus", "customer.subscription.deleted", NULL, NULL, NULL,
          "sub_1", NULL, "canceled", 3, NULL),
    Event("evt_inv", "invoice.paid", NULL, NULL, NULL,
          NULL, "cus_1", NULL, NoSec, NULL)
}

\* customer.subscription.created / updated events of subscription sub_1 of
\* customer cus_1, one for each way the plan can be given, and two that
\* differ from another only in status and period end: <<id, type,
\* metadata.plan, items.data[0].price.id, status, current_period_end>>
PlanCases == {
    <<"evt_p_meta", "customer.subscription.updated", "Premium",
      "price_starter_eur_test", "active", 3>>,
    <<"evt_p_meta_unpaid", "customer.subscription.updated", "Premium",
      "price_starter_eur_test", "unpaid", 1>>,
    <<"evt_p_meta_other", "customer.subscription.created", "gold",
      "price_premium_eur_test", "active", 3>>,
    <<"evt_p_starter", "customer.subscription.created", NULL,
      "price_starter_eur_test", "active", 3>>,
    <<"evt_p_starter_dkk", "customer.subscription.updated", NULL,
      "price_starter_dkk_live", "active", 3>>,
    <<"evt_p_premium", "customer.subscription.created", NULL,
      "price_premium_eur_live", "active", 3>>,
    <<"evt_p_premium_dkk", "customer.subscription.updated", NULL,
      "price_premium_dkk_test", "active", 3>>,
    <<"evt_p_premium_dkk_canceled", "customer.subscription.updated", NULL,
      "price_premium_dkk_test", "canceled", 1>>,
    <<"evt_p_other", "customer.subscription.updated", NULL, "price_other",
      "active", 3>>,
    <<"evt_p_none", "customer.subscription.created", NULL, NULL, "active", 3>>
}

PlanEvents ==
    { Event(c[1], c[2], NULL, NULL, c[3], "sub_1", "cus_1", c[5], c[6], c[4]) :
        c \in PlanCases }

Events == CoreEvents \cup PlanEvents

EventIds == { e.id : e \in Events }
CoreEventIds == { e.id : e \in CoreEvents }
PlanEventIds == { e.id : e \in PlanEvents }
Ev(id) == CHOOSE e \in Events : e.id = id

\* stripe.customers.retrieve(id).email, as the provider holds it
CustomerEmail(customer) == IF customer = "cus_1" THEN "a@x.com" ELSE NULL

(***************************************************************************)
(* Configuration.                                                          *)
(***************************************************************************)
\* const STRIPE_MODE = (process.env.STRIPE_MODE || <default>).toLowerCase()
STRIPE_MODE(v, e) ==
    IF e.STRIPE_MODE # NULL THEN e.STRIPE_MODE
    ELSE IF v \in TableVariants THEN "live" ELSE "test"

\* requireEnv(name): the value, or a throw when it is missing
THROWN == "thrown"
requireEnv(value) == IF value = NULL THEN THROWN ELSE value

\* The secret the handler hands to constructEvent
\*   folded      getStripeWebhookSecret(): requireEnv of the mode's variable
\*   subtable    STRIPE_WEBHOOK_SECRET, chosen by mode at start-up, may be undefined
\*   subtable1, mailonly, mailonly4   process.env.STRIPE_WEBHOOK_SECRET
getStripeWebhookSecret(v, e) ==
    CASE v \in FoldedVariants ->
            IF STRIPE_MODE(v, e) = "live" THEN requireEnv(e.STRIPE_WEBHOOK_SECRET)
            ELSE requireEnv(e.STRIPE_WEBHOOK_SECRET_TEST)
      [] v = "subtable" ->
            IF STRIPE_MODE(v, e) = "test" THEN e.STRIPE_WEBHOOK_SECRET_TEST
            ELSE e.STRIPE_WEBHOOK_SECRET
      [] OTHER -> e.STRIPE_WEBHOOK_SECRET

\* `if (!endpointSecret) throw` in front of constructEvent (part_001, part_004)
ChecksSecretFirst(v) == v \in {"subtable1", "mailonly4"}

\* Faulty variant: the signature is not checked
constructEvent_unchecked(sig, secret) == TRUE

\* stripe.webhooks.constructEvent(body, sig, secret): TRUE when it returns the
\* event, FALSE when it throws.  The header verifies only against the secret
\* that signed the body; with an undefined secret the HMAC cannot be computed
\* and the call throws as well.
constructEvent(sig, secret) == secret # NULL /\ sig = secret

\* The webhook secret of the configured mode (what the deployment calls the
\* secret of its mode; a variant without mode switch has the one variable)
ModeSecret(v, e) ==
    IF v \in {"mailonly", "mailonly4"} THEN e.STRIPE_WEBHOOK_SECRET
    ELSE IF STRIPE_MODE(v, e) = "test" THEN e.STRIPE_WEBHOOK_SECRET_TEST
    ELSE e.STRIPE_WEBHOOK_SECRET

\* resend && resendFrom (folded); the other variants always build the client
MailEnabled(v, e) == IF v \in FoldedVariants THEN e.RESEND ELSE TRUE

\* normalizePlan(p)
normalizePlan(p) ==
    LET plan == IF p = NULL THEN "" ELSE toLowerCase(p)
    IN  IF plan = "starter" \/ plan = "premium" THEN plan ELSE "free"

\* starterIds / premiumIds of the subscription created/updated branch
starterIds(mode) ==
    IF mode = "live" THEN {"price_starter_eur_live", "price_starter_dkk_live"}
    ELSE {"price_starter_eur_test", "price_starter_dkk_test"}
\* Faulty variant: the DKK premium price ids are missing from the list.
premiumIds_eurOnly(mode) ==
    IF mode = "live" THEN {"price_premium_eur_live"} ELSE {"price_premium_eur_test"}

premiumIds(mode) ==
    IF mode = "live" THEN {"price_premium_eur_live", "price_premium_dkk_live"}
    ELSE {"price_premium_eur_test", "price_premium_dkk_test"}

\* Faulty variant: a subscription that is not active or trialing stores free.
SubscriptionPlan_byStatus(e, mode) ==
    IF e.status \notin {"active", "trialing"} THEN "free"
    ELSE IF e.plan # NULL THEN normalizePlan(e.plan)
    ELSE IF e.price # NULL /\ e.price \in premiumIds(mode) THEN "premium"
    ELSE IF e.price # NULL /\ e.price \in starterIds(mode) THEN "starter"
    ELSE "free"

\* plan of a subscription created/updated event (folded): metadata, else price id
SubscriptionPlan(e, mode) ==
    LET p0 == e.plan
        p1 == IF p0 = NULL /\ e.price # NULL /\ e.price \in starterIds(mode)
              THEN "starter" ELSE p0
        p2 == IF p0 = NULL /\ e.price # NULL /\ e.price \in premiumIds(mode)
              THEN "premium" ELSE p1
    IN  normalizePlan(p2)

\* tsFromStripeUnixSeconds(sec): new Date(sec * 1000) names the instant `sec`
tsFromStripeUnixSeconds(sec) == IF sec = NoSec THEN NullTs ELSE sec

(***************************************************************************)
(* The store.  A table is a set of rows; `id` is the SERIAL key of a row.  *)
(* Every operator below is one SQL statement, executed atomically.         *)
(***************************************************************************)
NextId(table) == Cardinality(table) + 1

\* Faulty variant: the column is set to EXCLUDED.x even when that is NULL.
COALESCE_excluded(new, old) == new

\* COALESCE(EXCLUDED.x, users.x)
COALESCE(new, old) == IF new # NULL THEN new ELSE old

\* Faulty variant: INSERT without ON CONFLICT, a duplicate raises the unique violation
LedgerInsert_raising(ledger, event_id, type) ==
    IF \E r \in ledger : r.event_id = event_id
    THEN [rows |-> ledger, error |-> TRUE]
    ELSE [rows |-> ledger \cup {[id |-> NextId(ledger), event_id |-> event_id,
                                 type |-> type]},
          error |-> FALSE]

\* INSERT INTO webhook_events(event_id, type) ... ON CONFLICT (event_id) DO NOTHING
\* `rows` is the table after the statement, `error` says whether the statement
\* raised (event_id is UNIQUE: an insert that does not handle the conflict
\* raises a unique violation)
LedgerInsert(ledger, event_id, type) ==
    IF \E r \in ledger : r.event_id = event_id
    THEN [rows |-> ledger, error |-> FALSE]
    ELSE [rows |-> ledger \cup {[id |-> NextId(ledger), event_id |-> event_id,
                                 type |-> type]},
          error |-> FALSE]

\* upsertUser({email, plan, customerId, subscriptionId}) of the folded variants:
\* INSERT INTO users ... ON CONFLICT (email) DO UPDATE SET plan, COALESCE(...)
upsertUser(us, email, plan, customerId, subscriptionId) ==
    IF email = NULL THEN us
    ELSE LET key == toLowerCase(email)
             p == normalizePlan(plan)
         IN  IF \E u \in us : u.email = key
             THEN { IF u.email = key
                    THEN [u EXCEPT !.plan = p,
                                   !.stripe_customer_id =
                                       COALESCE(customerId, u.stripe_customer_id),
                                   !.stripe_subscription_id =
                                       COALESCE(subscriptionId, u.stripe_subscription_id)]
                    ELSE u : u \in us }
             ELSE us \cup {[id |-> NextId(us), email |-> key, plan |-> p,
                            stripe_customer_id |-> customerId,
                            stripe_subscription_id |-> subscriptionId]}

\* part_002: supported languages, anything else is "es"
normalizeLang(l) ==
    LET x == IF l = NULL THEN "" ELSE toLowerCase(l)
    IN  IF x \in {"es", "en", "da", "fr"} THEN x ELSE "es"

\* session.metadata.lang of the checkout events: evt_co_up was bought on the
\* English page, the other sessions carry no language
SessionLang(e) == IF e.id = "evt_co_up" THEN "en" ELSE NULL

\* part_002: SELECT lang FROM users WHERE email=$1
getUserLangByEmail(us, email) ==
    IF email = NULL THEN "es"
    ELSE LET rows == { u \in us : u.email = toLowerCase(email) }
         IN  IF rows = {} THEN "es"
             ELSE normalizeLang((CHOOSE u \in rows : TRUE).lang)

\* part_002: upsertUser({email, plan, customerId, subscriptionId, lang});
\* the language written is normalized and therefore never NULL
upsertUserLang(us, email, plan, lang, customerId, subscriptionId) ==
    IF email = NULL THEN us
    ELSE LET key == toLowerCase(email)
             p == normalizePlan(plan)
             L == normalizeLang(lang)
         IN  IF \E u \in us : u.email = key
             THEN { IF u.email = key
                    THEN [u EXCEPT !.plan = p,
                                   !.lang = COALESCE(L, u.lang),
                                   !.stripe_customer_id =
                                       COALESCE(customerId, u.stripe_customer_id),
                                   !.stripe_subscription_id =
                                       COALESCE(subscriptionId, u.stripe_subscription_id)]
                    ELSE u : u \in us }
             ELSE us \cup {[id |-> NextId(us), email |-> key, plan |-> p, lang |-> L,
                            stripe_customer_id |-> customerId,
                            stripe_subscription_id |-> subscriptionId]}

\* upsertUserByEmail(email) of the subscription-table variants:
\* INSERT INTO users (email) ... ON CONFLICT (email) DO UPDATE SET email = EXCLUDED.email
\* Faulty variant: a plain INSERT that adds a row on every call.
upsertUserByEmail_insert(us, email) ==
    us \cup {[id |-> NextId(us), email |-> email]}

upsertUserByEmail(us, email) ==
    IF \E u \in us : u.email = email THEN us
    ELSE us \cup {[id |-> NextId(us), email |-> email]}

\* ... RETURNING id, email
ReturningId(us, email) == (CHOOSE u \in us : u.email = email).id

\* Faulty variant: a plain INSERT on a table without the unique key
upsertSubscription_insert(subs, userId, sid, plan, status, currentPeriodEnd) ==
    subs \cup {[id |-> NextId(subs), user_id |-> userId,
                stripe_subscription_id |-> sid, plan |-> plan,
                status |-> status, current_period_end |-> currentPeriodEnd]}

\* upsertSubscription({userId, stripeSubscriptionId, plan, status, currentPeriodEnd})
\* Faulty variant: ON CONFLICT refreshes user, plan and period end but not status.
upsertSubscription_keepStatus(subs, userId, sid, plan, status, currentPeriodEnd) ==
    IF \E r \in subs : r.stripe_subscription_id = sid
    THEN { IF r.stripe_subscription_id = sid
           THEN [r EXCEPT !.user_id = userId, !.plan = plan,
                          !.current_period_end = currentPeriodEnd]
           ELSE r : r \in subs }
    ELSE subs \cup {[id |-> NextId(subs), user_id |-> userId,
                     stripe_subscription_id |-> sid, plan |-> plan,
                     status |-> status, current_period_end |-> currentPeriodEnd]}

upsertSubscription(subs, userId, sid, plan, status, currentPeriodEnd) ==
    IF \E r \in subs : r.stripe_subscription_id = sid
    THEN { IF r.stripe_subscription_id = sid
           THEN [r EXCEPT !.user_id = userId, !.plan = plan, !.status = status,
                          !.current_period_end = currentPeriodEnd]
           ELSE r : r \in subs }
    ELSE subs \cup {[id |-> NextId(subs), user_id |-> userId,
                     stripe_subscription_id |-> sid, plan |-> plan,
                     status |-> status, current_period_end |-> currentPeriodEnd]}

\* UPDATE subscriptions SET status=$1, current_period_end=$2 WHERE stripe_subscription_id=$3
updateSubscription(subs, status, currentPeriodEnd, sid) ==
    { IF r.stripe_subscription_id = sid
      THEN [r EXCEPT !.status = status, !.current_period_end = currentPeriodEnd]
      ELSE r : r \in subs }

\* Faulty variant: the status is set, the period end is left to run out
markSubscriptionCanceledNow_keepEnd(subs, sid, t) ==
    { IF r.stripe_subscription_id = sid
      THEN [r EXCEPT !.status = "canceled"]
      ELSE r : r \in subs }

\* markSubscriptionCanceledNow(stripeSubscriptionId), run at time t
markSubscriptionCanceledNow(subs, sid, t) ==
    { IF r.stripe_subscription_id = sid
      THEN [r EXCEPT !.status = "canceled", !.current_period_end = t]
      ELSE r : r \in subs }

(***************************************************************************)
(* Access check (subscription-table variants).                             *)
(***************************************************************************)
NoRow == [found |-> FALSE, plan |-> NULL, status |-> NULL, current_period_end |-> NullTs]

\* Faulty variant: a period end equal to the current time still grants access
isAccessActiveRow_inclusive(row, t) ==
    IF ~row.found THEN FALSE
    ELSE LET status == IF row.status = NULL THEN "" ELSE toLowerCase(row.status)
         IN  IF status \notin {"active", "trialing", "past_due"} THEN FALSE
             ELSE IF row.current_period_end = NullTs THEN FALSE
             ELSE row.current_period_end >= t

\* isAccessActiveRow(row), evaluated at time t
isAccessActiveRow(row, t) ==
    IF ~row.found THEN FALSE
    ELSE LET status == IF row.status = NULL THEN "" ELSE toLowerCase(row.status)
         IN  IF status \notin {"active", "trialing", "past_due"} THEN FALSE
             ELSE IF row.current_period_end = NullTs THEN FALSE
             ELSE row.current_period_end > t

\* SELECT s.plan, s.status, s.current_period_end FROM users u JOIN subscriptions s
\* ON s.user_id = u.id WHERE u.email = $1
JoinRows(us, subs, email) ==
    { s \in subs : \E u \in us : u.email = email /\ s.user_id = u.id }

\* Faulty variant: ORDER BY s.current_period_end DESC, which puts NULLs first
OrderedBefore_nullsFirst(a, b) ==
    \/ a.current_period_end = NullTs /\ b.current_period_end # NullTs
    \/ /\ a.current_period_end # NullTs
       /\ b.current_period_end # NullTs
       /\ a.current_period_end > b.current_period_end

\* ORDER BY s.current_period_end DESC NULLS LAST
OrderedBefore(a, b) ==
    \/ a.current_period_end # NullTs /\ b.current_period_end = NullTs
    \/ /\ a.current_period_end # NullTs
       /\ b.current_period_end # NullTs
       /\ a.current_period_end > b.current_period_end

\* ... LIMIT 1: the rows the query may return as r.rows[0] (rows that tie in
\* the ordering come in either order)
FirstRows(us, subs, email) ==
    LET j == JoinRows(us, subs, email)
    IN  IF j = {} THEN {NoRow}
        ELSE { [found |-> TRUE, plan |-> s.plan, status |-> s.status,
                current_period_end |-> s.current_period_end] :
               s \in { x \in j : \A y \in j : ~OrderedBefore(y, x) } }

\* POST /auth/login and GET /auth/check: the HTTP statuses the endpoint may
\* answer for the given email parameter in the given store at time t
AuthStatus(row, t) == IF ~row.found THEN 401 ELSE IF ~isAccessActiveRow(row, t) THEN 401 ELSE 200

authLogin(us, subs, emailParam, t) ==
    LET email == IF emailParam = NULL THEN "" ELSE toLowerCase(emailParam)
    IN  IF email = "" THEN {400}
        ELSE { AuthStatus(row, t) : row \in FirstRows(us, subs, email) }

authCheck(us, subs, emailParam, t) ==
    LET email == IF emailParam = NULL THEN "" ELSE toLowerCase(emailParam)
    IN  IF email = "" THEN {400}
        ELSE { AuthStatus(row, t) : row \in FirstRows(us, subs, email) }

\* The response of an auth endpoint: res.status(400|401|500).json({error}) or
\* res.json({ok: true, plan, status, current_period_end})
(***************************************************************************)
(* POST /create-checkout-session.                                          *)
(***************************************************************************)
UNDEFINED == "undefined"
ObjectConstructor == "function Object"

\* getPriceId(plan, currency) of server.js 35-44 with every PRICE_* variable set
getPriceId(plan, currency, mode) ==
    LET cur == IF toLowerCase(IF currency = NULL THEN "eur" ELSE currency) = "dkk"
               THEN "dkk" ELSE "eur"
        p == normalizePlan(plan)
    IN  IF p \in {"starter", "premium"}
        THEN "price_" \o p \o "_" \o cur \o "_" \o mode
        ELSE NULL

\* PRICE[plan]: the row of the price table, or what the object inherits
PriceRow(plan) ==
    IF plan \in {"starter", "premium"} THEN plan
    ELSE IF plan = "constructor" THEN ObjectConstructor
    ELSE UNDEFINED

\* PRICE[plan][currency] for a defined PRICE[plan]; Object.name is "Object"
PriceOf(row, currency, mode) ==
    IF row \in {"starter", "premium"}
    THEN (IF currency \in {"eur", "dkk"}
          THEN "price_" \o row \o "_" \o currency \o "_" \o mode ELSE UNDEFINED)
    ELSE IF currency = "name" THEN "Object" ELSE UNDEFINED

\* price ids the billing provider knows; sessions.create rejects any other
KnownPrices ==
    { "price_" \o p \o "_" \o c \o "_" \o m :
        p \in {"starter", "premium"}, c \in {"eur", "dkk"}, m \in Modes }

NoCheckout == [plan |-> NULL, currency |-> NULL, email |-> NULL,
               status |-> NoResponse, price |-> NULL, asked |-> FALSE]

CheckoutResponse(plan, currency, email, code, price) ==
    [plan |-> plan, currency |-> currency, email |-> email,
     status |-> code, price |-> price, asked |-> TRUE]

\* await stripe.checkout.sessions.create({line_items: [{price}]}) followed by
\* res.json({url}); `caught` is the answer when the call throws
SessionsCreate(plan, currency, email, price, ok, caught) ==
    IF price \in KnownPrices /\ ok
    THEN {CheckoutResponse(plan, currency, email, 200, price)}
    ELSE {CheckoutResponse(plan, currency, email, st, NULL) : st \in caught}

\* The possible responses of the variant's handler to body {plan, currency, email}
createCheckoutSession(v, mode, plan, currency, email, ok) ==
    LET str(x) == IF x = NULL THEN "" ELSE toLowerCase(x)
        R(code) == {CheckoutResponse(plan, currency, email, code, NULL)}
    IN  CASE v \in FoldedVariants ->
               IF normalizePlan(plan) = "free" THEN R(400)
               ELSE SessionsCreate(plan, currency, email,
                                   getPriceId(plan, currency, mode), ok,
                                   {HandlerFailed})
          [] v = "mailonly" ->
               \* no validation and no try: a TypeError or a rejected call
               \* leaves the handler's promise rejected
               IF plan = NULL \/ PriceRow(plan) = UNDEFINED
               THEN {CheckoutResponse(plan, currency, email, st, NULL) :
                       st \in {NoResponse, HandlerFailed}}
               ELSE SessionsCreate(plan, currency, email,
                                   PriceOf(PriceRow(plan), currency, "live"), ok,
                                   {NoResponse, HandlerFailed})
          [] OTHER ->
               LET row == PriceRow(str(plan))
                   price == IF row = UNDEFINED THEN UNDEFINED
                            ELSE PriceOf(row, str(currency),
                                         IF v = "subtable" THEN mode ELSE "live")
               IN  IF price = UNDEFINED THEN R(400)
                   ELSE IF v # "subtable" /\ email = NULL THEN R(400)
                   ELSE SessionsCreate(plan, currency, email, price, ok,
                                       {HandlerFailed})

NoAuth == [endpoint |-> NULL, email |-> NULL, status |-> NoResponse, ok |-> FALSE,
           plan |-> NULL, row_status |-> NULL, current_period_end |-> NullTs]

AuthResponse(endpoint, emailParam, code, row) ==
    [endpoint |-> endpoint, email |-> emailParam, status |-> code,
     ok |-> code = 200,
     plan |-> IF code = 200 THEN row.plan ELSE NULL,
     row_status |-> IF code = 200 THEN row.status ELSE NULL,
     current_period_end |-> IF code = 200 THEN row.current_period_end ELSE NullTs]

(***************************************************************************)
(* The handlers' control flow.  A stage is one awaited call; "verify" is   *)
(* the synchronous head of the handler.                                    *)
(***************************************************************************)
IsCheckout(e) == e.type = "checkout.session.completed"
IsDeleted(e) == e.type = "customer.subscription.deleted"
IsUpdated(e) == e.type = "customer.subscription.updated"
IsCreated(e) == e.type = "customer.subscription.created"

\* const email = session.customer_details?.email || session.customer_email || ...
SessionEmail(v, e) ==
    IF e.email # NULL THEN e.email
    ELSE IF v \in FoldedVariants THEN NULL
    ELSE e.metaEmail

\* const plan = session.metadata?.plan || <default>
SessionPlan(v, e) ==
    IF e.plan # NULL THEN e.plan
    ELSE IF v \in FoldedVariants THEN "free" ELSE "starter"

\* The stage that follows `stage` when it returned normally, "respond" when
\* the handler reaches res.json({received: true}).  `email` is the address
\* resolved so far, `mailOn` is MailEnabled.
NextStage(v, e, stage, email, mailOn) ==
    CASE v = "folded" ->
           (CASE stage = "verify" -> "ledger"
              [] stage = "ledger" ->
                   IF IsCheckout(e)
                   THEN (IF email # NULL THEN "upsertUser" ELSE "respond")
                   ELSE IF IsCreated(e) \/ IsUpdated(e) \/ IsDeleted(e)
                   THEN (IF e.customer # NULL THEN "lookup" ELSE "respond")
                   ELSE "respond"
              [] stage = "lookup" ->
                   IF email # NULL THEN "upsertUser" ELSE "respond"
              [] stage = "upsertUser" ->
                   IF (IsCheckout(e) \/ IsDeleted(e)) /\ mailOn /\ email # NULL
                   THEN "mail" ELSE "respond"
              [] OTHER -> "respond")
      [] v = "folded2" ->
           (CASE stage = "verify" -> "ledger"
              [] stage = "ledger" ->
                   IF IsCheckout(e)
                   THEN (IF email # NULL THEN "upsertUserLang" ELSE "respond")
                   ELSE IF IsCreated(e) \/ IsUpdated(e) \/ IsDeleted(e)
                   THEN (IF e.customer # NULL THEN "lookup" ELSE "respond")
                   ELSE "respond"
              [] stage = "lookup" ->
                   IF email # NULL THEN "getUserLangByEmail" ELSE "respond"
              [] stage = "getUserLangByEmail" -> "upsertUserLang"
              [] stage = "upsertUserLang" ->
                   IF (IsCheckout(e) \/ IsDeleted(e)) /\ mailOn /\ email # NULL
                   THEN "mail" ELSE "respond"
              [] OTHER -> "respond")
      [] v \in TableVariants ->
           (CASE stage = "verify" ->
                   IF IsCheckout(e)
                   THEN (IF email = NULL \/ e.subscription = NULL
                         THEN "respond" ELSE "retrieve")
                   ELSE IF IsUpdated(e) THEN "updateSubscription"
                   ELSE IF IsDeleted(e) THEN "cancel"
                   ELSE "respond"
              [] stage = "retrieve" -> "upsertUserByEmail"
              [] stage = "upsertUserByEmail" -> "upsertSubscription"
              [] stage = "upsertSubscription" -> "mail"
              [] stage = "cancel" ->
                   IF v = "subtable1" /\ e.customer # NULL THEN "lookup" ELSE "respond"
              [] stage = "lookup" ->
                   IF email # NULL THEN "mail" ELSE "respond"
              [] OTHER -> "respond")
      [] v = "mailonly" ->
           (CASE stage = "verify" ->
                   IF IsCheckout(e) /\ email # NULL THEN "mail" ELSE "respond"
              [] OTHER -> "respond")
      [] OTHER ->
           (CASE stage = "verify" ->
                   IF IsCheckout(e)
                   THEN (IF email # NULL THEN "mail" ELSE "respond")
                   ELSE IF IsDeleted(e)
                   THEN (IF e.customer # NULL THEN "lookup" ELSE "respond")
                   ELSE "respond"
              [] stage = "lookup" ->
                   IF email # NULL THEN "mail" ELSE "respond"
              [] OTHER -> "respond")

\* Faulty variant: every call of the handler is wrapped in a catch that only logs
CatchOf_logOnly(v, stage) == "swallow"

\* Faulty variant: the ledger insert shares the try of reconciliation
CatchOf_ledgerFatal(v, stage) ==
    CASE v \in FoldedVariants /\ stage = "mail" -> "swallow"
      [] v = "subtable" /\ stage = "mail" -> "swallow"
      [] v = "subtable1" /\ stage = "lookup" -> "swallow"
      [] OTHER -> "fail"

\* What the try/catch around `stage` does with a throw: "swallow" (caught and
\* logged, the handler goes on) or "fail" (the outer catch: status 500)
CatchOf(v, stage) ==
    CASE v \in FoldedVariants /\ stage \in {"ledger", "mail"} -> "swallow"
      [] v = "subtable" /\ stage = "mail" -> "swallow"
      [] v = "subtable1" /\ stage = "lookup" -> "swallow"
      [] OTHER -> "fail"


(***************************************************************************)
(* Requests.                                                               *)
(***************************************************************************)
\* pc: the stage awaited; ev, sig: the delivery; verified: constructEvent
\* returned; status: the response; email, sub_*, user_id: the handler's locals.
\* History kept with the request: did (stages called), threw (stages that
\* threw), redelivery (the event id had been answered 200 when this delivery
\* arrived), dup (the event id was in the ledger when this delivery recorded it)
Idle == [pc |-> "idle", ev |-> NULL, sig |-> NULL, verified |-> FALSE,
         status |-> NoResponse, did |-> {}, threw |-> {}, email |-> NULL,
         sub_status |-> NULL, sub_period_end |-> NoSec, user_id |-> 0,
         lang |-> NULL, redelivery |-> FALSE, dup |-> FALSE]

\* res.status(code).send(...) / res.json(...): the handler is over, its
\* locals are gone
Respond(r, code) ==
    [r EXCEPT !.pc = "done", !.status = code, !.email = NULL,
              !.sub_status = NULL, !.sub_period_end = NoSec, !.user_id = 0,
              !.lang = NULL]

Goto(r, stage) == IF stage = "respond" THEN Respond(r, Received)
                  ELSE [r EXCEPT !.pc = stage]

\* The request after `stage` returned normally
Returned(r, stage) ==
    Goto([r EXCEPT !.did = @ \cup {stage}],
         NextStage(variant, Ev(r.ev), stage, r.email, MailEnabled(variant, env)))

\* The request after `stage` threw
Threw(r, stage) ==
    LET t == [r EXCEPT !.did = @ \cup {stage}, !.threw = @ \cup {stage}]
    IN  IF CatchOf(variant, stage) = "swallow"
        THEN Goto(t, NextStage(variant, Ev(r.ev), stage, r.email,
                               MailEnabled(variant, env)))
        ELSE Respond(t, HandlerFailed)

Commit(p, r) ==
    /\ req' = [req EXCEPT ![p] = IF r.pc = "done" THEN Idle ELSE r]
    /\ last' = IF r.pc = "done" THEN r ELSE last
    /\ acked' = IF r.pc = "done" /\ r.status = Received /\ r.verified
                THEN acked \cup {r.ev} ELSE acked

(***************************************************************************)
(* Initial state: a freshly started server on an empty store.              *)
(***************************************************************************)
\* The environments a variant can be started in.  A variable the variant
\* never reads is left unset.
EnvsOf(v) ==
    { e \in [STRIPE_MODE : Modes \cup {NULL},
             STRIPE_WEBHOOK_SECRET : {NULL, SecretLive},
             STRIPE_WEBHOOK_SECRET_TEST : {NULL, SecretTest},
             RESEND : BOOLEAN] :
        /\ v \notin FoldedVariants => e.RESEND
        /\ v \in {"mailonly", "mailonly4"} =>
              e.STRIPE_MODE = NULL /\ e.STRIPE_WEBHOOK_SECRET_TEST = NULL
        /\ v \notin {"mailonly", "mailonly4"} => e.STRIPE_MODE # NULL
        /\ v \in FoldedVariants \cup {"subtable"} /\ STRIPE_MODE(v, e) = "test" =>
              e.STRIPE_WEBHOOK_SECRET = NULL
        /\ v \in FoldedVariants \cup {"subtable"} /\ STRIPE_MODE(v, e) = "live" =>
              e.STRIPE_WEBHOOK_SECRET_TEST = NULL
        /\ v = "subtable1" => e.STRIPE_WEBHOOK_SECRET_TEST = NULL }

Init ==
    /\ variant \in Variants
    /\ env \in EnvsOf(variant)
    /\ users = {}
    /\ subscriptions = {}
    /\ webhook_events = {}
    /\ now = 1
    /\ req = [p \in Procs |-> Idle]
    /\ last = Idle
    /\ delivered = 0
    /\ mailLog = [id \in EventIds |-> 0]
    /\ acked = {}
    /\ canceledAt = [s \in SubIds |-> NullTs]
    /\ auth = NoAuth
    /\ checkout = NoCheckout

(***************************************************************************)
(* A delivery arrives: the head of the handler up to its first await.      *)
(***************************************************************************)
DeliverFrom(p, ids) ==
    /\ req[p].pc = "idle"
    /\ \A q \in Procs : q < p => req[q].pc # "idle"   \* slots are taken in order
    /\ delivered < MaxDeliveries
    /\ delivered' = delivered + 1
    /\ \E id \in ids, sig \in Signatures :
         LET e == Ev(id)
             secret == getStripeWebhookSecret(variant, env)
             \* the handler knows the event only once constructEvent returned it
             r0 == [Idle EXCEPT !.sig = sig]
             r1 == [r0 EXCEPT !.ev = id, !.verified = TRUE,
                              !.redelivery = id \in acked,
                              !.email = IF IsCheckout(e) THEN SessionEmail(variant, e)
                                        ELSE NULL]
         IN  IF secret = THROWN
             THEN \* the async handler rejects outside any try: the handler
                  \* writes no response; whether the framework answers 500
                  \* for it depends on the Express version
                  \E st \in {NoResponse, HandlerFailed} :
                      Commit(p, Respond([r0 EXCEPT !.threw = {"secret"}], st))
             ELSE IF ChecksSecretFirst(variant) /\ secret = NULL
             THEN Commit(p, Respond([r0 EXCEPT !.threw = {"verify"}], SignatureFailed))
             ELSE IF ~constructEvent(sig, secret)
             THEN Commit(p, Respond([r0 EXCEPT !.threw = {"verify"}], SignatureFailed))
             ELSE Commit(p, Returned(r1, "verify"))
    /\ UNCHANGED <<variant, env, auth, checkout, users, subscriptions, webhook_events, now,
                   mailLog, canceledAt>>

Deliver(p) == DeliverFrom(p, CoreEventIds)

(***************************************************************************)
(* await db.query("INSERT INTO webhook_events ...") inside its own try     *)
(***************************************************************************)
RecordEvent(p) ==
    /\ req[p].pc = "ledger"
    /\ \E ok \in BOOLEAN :
         LET res == LedgerInsert(webhook_events, req[p].ev, Ev(req[p].ev).type)
             r == [req[p] EXCEPT !.dup = \E x \in webhook_events : x.event_id = req[p].ev]
         IN  IF ~ok
             THEN /\ UNCHANGED webhook_events
                  /\ Commit(p, Threw(r, "ledger"))
             ELSE IF res.error
             THEN /\ UNCHANGED webhook_events
                  /\ Commit(p, Threw([r EXCEPT !.threw = @ \cup {"conflict"}], "ledger"))
             ELSE /\ webhook_events' = res.rows
                  /\ Commit(p, Returned(r, "ledger"))
    /\ UNCHANGED <<variant, env, auth, checkout, users, subscriptions, now, delivered,
                   mailLog, canceledAt>>

(***************************************************************************)
(* await stripe.customers.retrieve(sub.customer)                           *)
(***************************************************************************)
RetrieveCustomer(p) ==
    /\ req[p].pc = "lookup"
    /\ \E ok \in BOOLEAN :
         IF ok
         THEN Commit(p, Returned([req[p] EXCEPT
                                    !.email = CustomerEmail(Ev(req[p].ev).customer)],
                                 "lookup"))
         ELSE Commit(p, Threw(req[p], "lookup"))
    /\ UNCHANGED <<variant, env, auth, checkout, users, subscriptions, webhook_events, now,
                   delivered, mailLog, canceledAt>>

(***************************************************************************)
(* await upsertUser({...}) of the folded variant                           *)
(***************************************************************************)
\* the arguments the three branches of the handler pass to upsertUser
UpsertUserArgs(e, email) ==
    IF IsCheckout(e)
    THEN [email |-> email, plan |-> SessionPlan("folded", e),
          customerId |-> e.customer, subscriptionId |-> e.subscription]
    ELSE IF IsDeleted(e)
    THEN [email |-> email, plan |-> "free",
          customerId |-> e.customer, subscriptionId |-> NULL]
    ELSE [email |-> email, plan |-> SubscriptionPlan(e, STRIPE_MODE(variant, env)),
          customerId |-> e.customer, subscriptionId |-> e.subscription]

UpsertUser(p) ==
    /\ req[p].pc = "upsertUser"
    /\ \E ok \in BOOLEAN :
         IF ok
         THEN LET a == UpsertUserArgs(Ev(req[p].ev), req[p].email)
              IN  /\ users' = upsertUser(users, a.email, a.plan, a.customerId,
                                         a.subscriptionId)
                  /\ Commit(p, Returned(req[p], "upsertUser"))
         ELSE /\ UNCHANGED users
              /\ Commit(p, Threw(req[p], "upsertUser"))
    /\ UNCHANGED <<variant, env, auth, checkout, subscriptions, webhook_events, now, delivered,
                   mailLog, canceledAt>>

(***************************************************************************)
(* await resend.emails.send({...})                                         *)
(***************************************************************************)
SendEmail(p) ==
    /\ req[p].pc = "mail"
    /\ mailLog' = [mailLog EXCEPT ![req[p].ev] = @ + 1]
    /\ \E ok \in BOOLEAN :
         IF ok THEN Commit(p, Returned(req[p], "mail"))
         ELSE Commit(p, Threw(req[p], "mail"))
    /\ UNCHANGED <<variant, env, auth, checkout, users, subscriptions, webhook_events, now,
                   delivered, canceledAt>>

(***************************************************************************)
(* Subscription-table variants (part_000, part_001).                       *)
(***************************************************************************)
\* status: sub.status (part_000), sub.status || "active" (part_001)
StoredStatus(v, status) ==
    IF v = "subtable1" /\ status = NULL THEN "active" ELSE status

\* const sub = await stripe.subscriptions.retrieve(stripeSubscriptionId):
\* the provider answers with the status and period end it holds at that moment
RetrieveSubscription(p) ==
    /\ req[p].pc = "retrieve"
    /\ \E ok \in BOOLEAN :
         IF ok
         THEN \E sub \in ProviderAnswers :
                 Commit(p, Returned([req[p] EXCEPT !.sub_status = sub[1],
                                                   !.sub_period_end = sub[2]],
                                    "retrieve"))
         ELSE Commit(p, Threw(req[p], "retrieve"))
    /\ UNCHANGED <<variant, env, auth, checkout, users, subscriptions, webhook_events, now,
                   delivered, mailLog, canceledAt>>

\* const user = await upsertUserByEmail(email)
UpsertUserByEmail(p) ==
    /\ req[p].pc = "upsertUserByEmail"
    /\ \E ok \in BOOLEAN :
         IF ok
         THEN LET us == upsertUserByEmail(users, req[p].email)
              IN  /\ users' = us
                  /\ Commit(p, Returned([req[p] EXCEPT
                                           !.user_id = ReturningId(us, req[p].email)],
                                        "upsertUserByEmail"))
         ELSE /\ UNCHANGED users
              /\ Commit(p, Threw(req[p], "upsertUserByEmail"))
    /\ UNCHANGED <<variant, env, auth, checkout, subscriptions, webhook_events, now, delivered,
                   mailLog, canceledAt>>

\* await upsertSubscription({userId: user.id, stripeSubscriptionId, plan,
\*                           status: sub.status, currentPeriodEnd: ...})
UpsertSubscription(p) ==
    /\ req[p].pc = "upsertSubscription"
    /\ \E ok \in BOOLEAN :
         LET e == Ev(req[p].ev)
         IN  IF ok
             THEN /\ subscriptions' =
                        upsertSubscription(subscriptions, req[p].user_id,
                            e.subscription, SessionPlan(variant, e),
                            StoredStatus(variant, req[p].sub_status),
                            tsFromStripeUnixSeconds(req[p].sub_period_end))
                  /\ canceledAt' = [canceledAt EXCEPT ![e.subscription] = NullTs]
                  /\ Commit(p, Returned(req[p], "upsertSubscription"))
             ELSE /\ UNCHANGED <<subscriptions, canceledAt>>
                  /\ Commit(p, Threw(req[p], "upsertSubscription"))
    /\ UNCHANGED <<variant, env, auth, checkout, users, webhook_events, now, delivered, mailLog>>

\* customer.subscription.updated: await db.query("UPDATE subscriptions SET ...")
UpdateSubscription(p) ==
    /\ req[p].pc = "updateSubscription"
    /\ \E ok \in BOOLEAN :
         LET e == Ev(req[p].ev)
         IN  IF ok
             THEN /\ subscriptions' =
                        updateSubscription(subscriptions,
                            StoredStatus(variant, e.status),
                            tsFromStripeUnixSeconds(e.period_end), e.subscription)
                  /\ canceledAt' = [canceledAt EXCEPT ![e.subscription] = NullTs]
                  /\ Commit(p, Returned(req[p], "updateSubscription"))
             ELSE /\ UNCHANGED <<subscriptions, canceledAt>>
                  /\ Commit(p, Threw(req[p], "updateSubscription"))
    /\ UNCHANGED <<variant, env, auth, checkout, users, webhook_events, now, delivered, mailLog>>

\* customer.subscription.deleted: await markSubscriptionCanceledNow(sub.id).
\* canceledAt remembers the time of a cancellation that is acknowledged with
\* 200 in this very step; any other statement on the row of s forgets it.
CancelSubscription(p) ==
    /\ req[p].pc = "cancel"
    /\ \E ok \in BOOLEAN :
         LET e == Ev(req[p].ev)
             r == IF ok THEN Returned(req[p], "cancel") ELSE Threw(req[p], "cancel")
         IN  /\ subscriptions' =
                   IF ok THEN markSubscriptionCanceledNow(subscriptions, e.subscription, now)
                   ELSE subscriptions
             /\ canceledAt' =
                   IF ~ok THEN canceledAt
                   ELSE [canceledAt EXCEPT ![e.subscription] =
                            IF r.pc = "done" /\ r.status = Received THEN now ELSE NullTs]
             /\ Commit(p, r)
    /\ UNCHANGED <<variant, env, auth, checkout, users, webhook_events, now, delivered, mailLog>>

\* Time passes.  Only the subscription-table variants store instants that
\* are read again (current_period_end), so the clock is kept for them alone.
Tick ==
    /\ variant \in TableVariants
    /\ now < MaxTime
    /\ now' = now + 1
    /\ UNCHANGED <<variant, env, auth, checkout, users, subscriptions, webhook_events, req, last,
                   delivered, mailLog, acked, canceledAt>>

Next ==
    \/ \E p \in Procs : Deliver(p)
    \/ \E p \in Procs : RecordEvent(p)
    \/ \E p \in Procs : RetrieveCustomer(p)
    \/ \E p \in Procs : UpsertUser(p)
    \/ \E p \in Procs : RetrieveSubscription(p)
    \/ \E p \in Procs : UpsertUserByEmail(p)
    \/ \E p \in Procs : UpsertSubscription(p)
    \/ \E p \in Procs : UpdateSubscription(p)
    \/ \E p \in Procs : CancelSubscription(p)
    \/ \E p \in Procs : SendEmail(p)
    \/ Tick

Spec == Init /\ [][Next]_vars

(***************************************************************************)
(* The same server when the provider sends one delivery at a time: a       *)
(* delivery arrives only after the one before it has been answered.        *)
(***************************************************************************)
NoneInFlight == \A p \in Procs : req[p].pc = "idle"

SeqNext ==
    \/ NoneInFlight /\ \E p \in Procs : Deliver(p)
    \/ \E p \in Procs : RecordEvent(p)
    \/ \E p \in Procs : RetrieveCustomer(p)
    \/ \E p \in Procs : UpsertUser(p)
    \/ \E p \in Procs : RetrieveSubscription(p)
    \/ \E p \in Procs : UpsertUserByEmail(p)
    \/ \E p \in Procs : UpsertSubscription(p)
    \/ \E p \in Procs : UpdateSubscription(p)
    \/ \E p \in Procs : CancelSubscription(p)
    \/ \E p \in Procs : SendEmail(p)
    \/ Tick

SeqSpec == Init /\ [][SeqNext]_vars

(***************************************************************************)
(* part_002: the folded-user handler that keeps the user's language, under *)
(* concurrent deliveries.                                                  *)
(***************************************************************************)
\* const currentLang = email ? await getUserLangByEmail(email) : "es"
GetUserLangByEmail(p) ==
    /\ req[p].pc = "getUserLangByEmail"
    /\ \E ok \in BOOLEAN :
         IF ok
         THEN Commit(p, Returned([req[p] EXCEPT
                                    !.lang = getUserLangByEmail(users, req[p].email)],
                                 "getUserLangByEmail"))
         ELSE Commit(p, Threw(req[p], "getUserLangByEmail"))
    /\ UNCHANGED <<variant, env, auth, checkout, users, subscriptions, webhook_events, now,
                   delivered, mailLog, canceledAt>>

\* lang argument of upsertUser: the session's language in the checkout
\* branch, the language read before in the subscription branches
UpsertUserLangArg(e, currentLang) ==
    IF IsCheckout(e) THEN normalizeLang(SessionLang(e)) ELSE currentLang

\* await upsertUser({email, plan, lang, customerId, subscriptionId})
UpsertUserLang(p) ==
    /\ req[p].pc = "upsertUserLang"
    /\ \E ok \in BOOLEAN :
         IF ok
         THEN LET e == Ev(req[p].ev)
                  a == UpsertUserArgs(e, req[p].email)
              IN  /\ users' = upsertUserLang(users, a.email, a.plan,
                                             UpsertUserLangArg(e, req[p].lang),
                                             a.customerId, a.subscriptionId)
                  /\ Commit(p, Returned(req[p], "upsertUserLang"))
         ELSE /\ UNCHANGED users
              /\ Commit(p, Threw(req[p], "upsertUserLang"))
    /\ UNCHANGED <<variant, env, auth, checkout, subscriptions, webhook_events, now, delivered,
                   mailLog, canceledAt>>

LangEventIds == {"evt_co", "evt_co_up", "evt_upd", "evt_del"}

LangInit ==
    /\ variant = "folded2"
    /\ env \in EnvsOf(variant)
    /\ users = {}
    /\ subscriptions = {}
    /\ webhook_events = {}
    /\ now = 1
    /\ req = [p \in Procs |-> Idle]
    /\ last = Idle
    /\ delivered = 0
    /\ mailLog = [id \in EventIds |-> 0]
    /\ acked = {}
    /\ canceledAt = [s \in SubIds |-> NullTs]
    /\ auth = NoAuth
    /\ checkout = NoCheckout

DeliverLangEvent(p) == DeliverFrom(p, LangEventIds)

LangNext ==
    \/ \E p \in Procs : DeliverLangEvent(p)
    \/ \E p \in Procs : RecordEvent(p)
    \/ \E p \in Procs : RetrieveCustomer(p)
    \/ \E p \in Procs : GetUserLangByEmail(p)
    \/ \E p \in Procs : UpsertUserLang(p)
    \/ \E p \in Procs : SendEmail(p)

LangSpec == LangInit /\ [][LangNext]_vars

(***************************************************************************)
(* part_000 with a checkout-completed and a subscription-deleted delivery  *)
(* of the same subscription in flight at the same time: both have been     *)
(* verified and stand before their first awaited call.                     *)
(***************************************************************************)
InFlight(id, stage, secret) ==
    [Idle EXCEPT !.pc = stage, !.ev = id, !.sig = secret, !.verified = TRUE,
                 !.did = {"verify"},
                 !.email = IF IsCheckout(Ev(id)) THEN SessionEmail("subtable", Ev(id))
                           ELSE NULL]

RaceInit ==
    /\ variant = "subtable"
    /\ env \in { e \in EnvsOf(variant) : ModeSecret(variant, e) # NULL }
    /\ users = {}
    /\ subscriptions = {}
    /\ webhook_events = {}
    /\ now = 1
    /\ req \in { [p \in Procs |-> IF p = a
                                   THEN InFlight("evt_co", "retrieve",
                                                 ModeSecret(variant, env))
                                   ELSE InFlight("evt_del", "cancel",
                                                 ModeSecret(variant, env))] :
                   a \in Procs }
    /\ last = Idle
    /\ delivered = 2
    /\ mailLog = [id \in EventIds |-> 0]
    /\ acked = {}
    /\ canceledAt = [s \in SubIds |-> NullTs]
    /\ auth = NoAuth
    /\ checkout = NoCheckout

RaceNext ==
    \/ \E p \in Procs : RetrieveSubscription(p)
    \/ \E p \in Procs : UpsertUserByEmail(p)
    \/ \E p \in Procs : UpsertSubscription(p)
    \/ \E p \in Procs : SendEmail(p)
    \/ \E p \in Procs : CancelSubscription(p)
    \/ Tick

RaceSpec == RaceInit /\ [][RaceNext]_vars

(***************************************************************************)
(* Requests to POST /create-checkout-session of every variant.             *)
(***************************************************************************)
PlanParams == {NULL, "starter", "Premium", "gold", "constructor"}
CurrencyParams == {NULL, "eur", "DKK", "usd", "name"}

CreateCheckoutSession ==
    /\ \E plan \in PlanParams, currency \in CurrencyParams,
          email \in {NULL, "a@x.com"}, ok \in BOOLEAN :
          checkout' \in createCheckoutSession(variant, STRIPE_MODE(variant, env),
                                              plan, currency, email, ok)
    /\ UNCHANGED <<variant, env, auth, users, subscriptions, webhook_events, now,
                   req, last, delivered, mailLog, acked, canceledAt>>

CheckoutNext == CreateCheckoutSession

CheckoutSpec == Init /\ [][CheckoutNext]_vars

(***************************************************************************)
(* The folded server receiving subscription created/updated events, one    *)
(* delivery at a time.                                                     *)
(***************************************************************************)
PlanInit == Init /\ variant = "folded"

DeliverPlanEvent(p) == NoneInFlight /\ DeliverFrom(p, PlanEventIds)

PlanNext ==
    \/ \E p \in Procs : DeliverPlanEvent(p)
    \/ \E p \in Procs : RecordEvent(p)
    \/ \E p \in Procs : RetrieveCustomer(p)
    \/ \E p \in Procs : UpsertUser(p)

PlanSpec == PlanInit /\ [][PlanNext]_vars

(***************************************************************************)
(* The access endpoints of the subscription-table variants.  Both read the *)
(* store with one SELECT and write nothing.                                *)
(***************************************************************************)
\* req.body.email / req.query.email
EmailParams == Emails \cup {NULL, "b@x.com"}

\* app.post("/auth/login")
AuthLogin ==
    /\ \E emailParam \in EmailParams, ok \in BOOLEAN :
         LET email == IF emailParam = NULL THEN "" ELSE toLowerCase(emailParam)
         IN  \/ /\ email = ""
                /\ auth' = AuthResponse("login", emailParam, 400, NoRow)
             \/ /\ email # "" /\ ~ok       \* db.query throws
                /\ auth' = AuthResponse("login", emailParam, HandlerFailed, NoRow)
             \/ /\ email # "" /\ ok
                /\ \E row \in FirstRows(users, subscriptions, email) :
                      auth' = AuthResponse("login", emailParam, AuthStatus(row, now), row)
    /\ UNCHANGED <<variant, env, users, subscriptions, webhook_events, now, req,
                   last, delivered, mailLog, acked, canceledAt, checkout>>

\* app.get("/auth/check")
AuthCheck ==
    /\ \E emailParam \in EmailParams, ok \in BOOLEAN :
         LET email == IF emailParam = NULL THEN "" ELSE toLowerCase(emailParam)
         IN  \/ /\ email = ""
                /\ auth' = AuthResponse("check", emailParam, 400, NoRow)
             \/ /\ email # "" /\ ~ok       \* db.query throws
                /\ auth' = AuthResponse("check", emailParam, HandlerFailed, NoRow)
             \/ /\ email # "" /\ ok
                /\ \E row \in FirstRows(users, subscriptions, email) :
                      auth' = AuthResponse("check", emailParam, AuthStatus(row, now), row)
    /\ UNCHANGED <<variant, env, users, subscriptions, webhook_events, now, req,
                   last, delivered, mailLog, acked, canceledAt, checkout>>

\* The stores the endpoints are asked on: the user a@x.com with no, one or
\* two subscription rows, each with a status the provider or an operator may
\* have left in the column and a period end around the clock's range.
AuthStatuses == {"active", "TRIALING", "past_due", "canceled", "incomplete"}
AuthEnds == {NullTs} \cup (1..(MaxTime + 1))

AuthRow(s, st, e) ==
    [id |-> IF s = "sub_1" THEN 1 ELSE 2, user_id |-> 1,
     stripe_subscription_id |-> s,
     plan |-> IF s = "sub_1" THEN "starter" ELSE "premium",
     status |-> st, current_period_end |-> e]

AuthRowsOf(s) == { AuthRow(s, st, e) : st \in AuthStatuses, e \in AuthEnds }

AuthStores ==
    {{}} \cup { {r} : r \in AuthRowsOf("sub_1") }
         \cup { {r1, r2} : r1 \in AuthRowsOf("sub_1"), r2 \in AuthRowsOf("sub_2") }

AuthInit ==
    /\ variant \in TableVariants
    /\ env \in EnvsOf(variant)
    /\ users = {[id |-> 1, email |-> "a@x.com"]}
    /\ subscriptions \in AuthStores
    /\ webhook_events = {}
    /\ now = 1
    /\ req = [p \in Procs |-> Idle]
    /\ last = Idle
    /\ delivered = 0
    /\ mailLog = [id \in EventIds |-> 0]
    /\ acked = {}
    /\ canceledAt = [s \in SubIds |-> NullTs]
    /\ auth = NoAuth
    /\ checkout = NoCheckout

AuthNext == AuthLogin \/ AuthCheck \/ Tick

AuthSpec == AuthInit /\ [][AuthNext]_vars

(***************************************************************************)
(* Properties.                                                             *)
(***************************************************************************)
\* every delivery the state knows: those in flight and the one answered last
Requests == { req[p] : p \in Procs } \cup {last}
Seen == { r \in Requests : r.pc # "idle" }
Verified == { r \in Seen : r.verified }

StoreStages == {"upsertUser", "upsertUserByEmail", "upsertSubscription",
                "updateSubscription", "cancel"}
LookupStages == {"lookup", "retrieve"}

\* the signature header of r does not verify against the handler's secret
SignatureInvalid(r) ==
    LET secret == getStripeWebhookSecret(variant, env)
    IN  secret # THROWN /\ r.sig # secret

\* C1: in every webhook handler a delivery whose signature verification fails
\* is answered 400 and nothing else is done for it: no ledger insert, no store
\* statement, no provider lookup, no email send.
C1_InvalidSignatureRejected ==
    \A r \in Seen :
        SignatureInvalid(r) =>
            /\ r.pc = "done"
            /\ r.status = SignatureFailed
            /\ r.did = {}

C1_Witness ==
    /\ variant = "subtable"
    /\ subscriptions # {}
    /\ last.pc = "done"
    /\ last.sig = "forged"
    /\ last.status = SignatureFailed

\* C2: when the webhook secret of the configured mode is not set, no delivery
\* is ever reconciled: no stage of any handler runs and the store stays as it
\* was.
C2_FailsClosedWithoutSecret ==
    ModeSecret(variant, env) = NULL =>
        /\ \A r \in Seen : r.did = {}
        /\ users = {} /\ subscriptions = {} /\ webhook_events = {}
        /\ \A id \in EventIds : mailLog[id] = 0

\* C3: in the ledger-keeping handler at most one welcome or cancellation email
\* is attempted per event id, however often the event is delivered.
C3_OneEmailPerEvent ==
    variant = "folded" => \A id \in EventIds : mailLog[id] <= 1

C5_RedeliveryChangesNothing ==
    [][\A p \in Procs :
          (variant = "folded" /\ req[p].pc = "upsertUser" /\ req[p].redelivery
              /\ req'[p] # req[p])
          => users' = users]_vars

\* C6: the ledger holds exactly one record per event id whose insert
\* succeeded, a duplicate raises no error, and the delivery of a duplicate goes
\* on to reconciliation and to the response reconciliation produces.
C6_LedgerInsertIfAbsent ==
    variant = "folded" =>
        /\ \A a, b \in webhook_events : a.event_id = b.event_id => a = b
        /\ \A a \in webhook_events : a.type = Ev(a.event_id).type
        /\ \A r \in Verified :
              /\ "conflict" \notin r.threw
              /\ ("ledger" \in r.did /\ "ledger" \notin r.threw) =>
                    \E a \in webhook_events : a.event_id = r.ev
              /\ (r.dup /\ r.pc = "done") =>
                    r.status = IF r.threw \cap (StoreStages \cup LookupStages) = {}
                               THEN Received ELSE HandlerFailed

\* a duplicate was recorded without error, reconciled and answered 200
C6_Witness ==
    /\ variant = "folded"
    /\ last.pc = "done" /\ last.dup
    /\ "ledger" \notin last.threw
    /\ "upsertUser" \in last.did
    /\ last.status = Received
    /\ Cardinality(webhook_events) = 1

\* C7: in every webhook handler a throwing email send leaves the response as
\* it is when the send succeeds, which is 200.
C7_EmailFailureNeverFailsAck ==
    \A r \in Seen : (r.pc = "done" /\ "mail" \in r.threw) => r.status = Received

\* C8 as claimed: a verified delivery in which a store statement of the
\* reconciliation or a provider lookup threw is answered 500.
C8_DependentErrorIs500 ==
    \A r \in Seen :
        (r.pc = "done" /\ r.verified
            /\ r.threw \cap (StoreStages \cup LookupStages) # {})
        => r.status = HandlerFailed

\* the lookup part_001 makes only to address the cancellation email
NotificationLookup(v, stage) == v = "subtable1" /\ stage = "lookup"

\* C8 as amended: ... is answered 500, except when the call that threw is the
\* customer retrieve of part_001's subscription-deleted branch, which serves
\* the cancellation email only: that throw is caught, no email is sent and the
\* delivery is answered 200.
C8_ReconciliationErrorIs500 ==
    \A r \in Seen :
        (r.pc = "done" /\ r.verified) =>
            /\ (\E st \in r.threw : st \in StoreStages \cup LookupStages
                                     /\ ~NotificationLookup(variant, st))
                  => r.status = HandlerFailed
            /\ (\E st \in r.threw : NotificationLookup(variant, st))
                  => (r.status = Received /\ "mail" \notin r.did /\ "cancel" \in r.did)

C8_Witness ==
    /\ variant = "folded"
    /\ last.pc = "done" /\ last.verified
    /\ "lookup" \in last.threw
    /\ last.status = HandlerFailed

\* C9: in part_000 and in the folded-user handler a verified checkout-completed
\* event without email or without subscription id is answered 200 and nothing
\* is written or sent for it.
C9_MissingDataIsNoOp ==
    \A r \in Verified :
        (/\ variant \in {"subtable", "folded"}
         /\ IsCheckout(Ev(r.ev))
         /\ (SessionEmail(variant, Ev(r.ev)) = NULL \/ Ev(r.ev).subscription = NULL))
        => /\ r.did \cap (StoreStages \cup {"mail"}) = {}
           /\ r.pc = "done" => r.status = Received

\* the user of `email` has subscription s and no other
OnlySubscription(email, s) ==
    { x.stripe_subscription_id : x \in JoinRows(users, subscriptions, email) } = {s}

\* C10: once the deletion of s has been acknowledged, and until another
\* statement of a webhook writes the row of s, the row (if there is one) is
\* canceled with period end at the time of the deletion, and auth/check and
\* auth/login answer 401 for the user whose only subscription is s.
C10_CancellationImmediate ==
    \A s \in SubIds :
        canceledAt[s] # NullTs =>
            /\ \A x \in subscriptions :
                  x.stripe_subscription_id = s =>
                      x.status = "canceled" /\ x.current_period_end = canceledAt[s]
            /\ \A em \in Emails :
                  OnlySubscription(toLowerCase(em), s) =>
                      /\ authCheck(users, subscriptions, em, now) = {401}
                      /\ authLogin(users, subscriptions, em, now) = {401}

\* the row of sub_1 was canceled at an earlier time and its user has no other
C10_Witness ==
    /\ variant = "subtable"
    /\ canceledAt["sub_1"] # NullTs
    /\ now > canceledAt["sub_1"]
    /\ OnlySubscription("a@x.com", "sub_1")

\* the delivery answered last was verified and answered 200, and nothing is
\* in flight: the state is the one its handler left
Settled == NoneInFlight /\ last.pc = "done" /\ last.verified /\ last.status = Received

\* C11: deliveries one at a time; once a verified subscription-deleted event
\* for s has been answered 200, the paid state recorded for s is revoked,
\* whether or not the customer's email could be resolved: no user row of the
\* folded variant that records s keeps a paid plan, and a subscription row of
\* s has status canceled.
C11_DeletionRevokesWithoutUser ==
    (Settled /\ IsDeleted(Ev(last.ev))) =>
        LET s == Ev(last.ev).subscription
        IN  /\ variant = "folded" =>
                  \A u \in users : u.stripe_subscription_id = s => u.plan = "free"
            /\ variant \in TableVariants =>
                  \A x \in subscriptions :
                      x.stripe_subscription_id = s => x.status = "canceled"

\* C12: the store statement of a subscription-deleted event for s leaves every
\* row that records another subscription id as it was: a user row of the
\* folded variant whose stripe_subscription_id is some other s', and every
\* subscription row of another id.
C12_DeletionTouchesOnlyItsSubscription ==
    [][\A p \in Procs :
          (/\ req[p].pc \in {"upsertUser", "cancel"}
           /\ IsDeleted(Ev(req[p].ev))
           /\ req'[p] # req[p])
          => LET s == Ev(req[p].ev).subscription
             IN  /\ \A u \in users :
                       (variant = "folded" /\ u.stripe_subscription_id \notin {s, NULL})
                           => u \in users'
                 /\ \A x \in subscriptions :
                       x.stripe_subscription_id # s => x \in subscriptions']_vars

\* a subscription row as the SELECT of the access endpoints returns it
SelectedRow(x) == [found |-> TRUE, plan |-> x.plan, status |-> x.status,
                   current_period_end |-> x.current_period_end]

\* C13: isAccessActiveRow grants access exactly when the row exists, its
\* status is active, trialing or past_due in any letter case, and its period
\* end is set and strictly later than the current time; a missing row, any
\* other status, a null period end and a period end at or before now are
\* denied.
C13_AccessExactlyWhenActiveAndInFuture ==
    \A row \in {NoRow} \cup { SelectedRow(x) : x \in subscriptions } :
        isAccessActiveRow(row, now) <=>
            /\ row.found
            /\ row.status \in {"active", "TRIALING", "past_due"}
            /\ row.current_period_end # NullTs
            /\ row.current_period_end > now

\* an endpoint granted access on a row whose status is written in upper case,
\* while the store also holds an active row that ends at this very instant
C13_Witness ==
    /\ auth.ok /\ auth.row_status = "TRIALING"
    /\ \E x \in subscriptions : x.status = "active" /\ x.current_period_end = now

\* x has the greatest period end among the rows j, a null period end counting
\* as the least
GreatestPeriodEnd(x, j) ==
    \A y \in j : \/ y.current_period_end = NullTs
                 \/ /\ x.current_period_end # NullTs
                    /\ x.current_period_end >= y.current_period_end

\* the response `a` of an access endpoint is the decision on a row of the
\* user with the greatest period end: 200 with that row's plan, status and
\* period end when the row grants access, 401 when it does not or when the
\* user has no row
DecidedOnGreatest(a) ==
    LET j == JoinRows(users, subscriptions, toLowerCase(a.email))
    IN  IF j = {} THEN a.status = 401 /\ ~a.ok
        ELSE \E x \in j :
                /\ GreatestPeriodEnd(x, j)
                /\ IF isAccessActiveRow(SelectedRow(x), now)
                   THEN /\ a.status = 200 /\ a.ok
                        /\ a.plan = x.plan /\ a.row_status = x.status
                        /\ a.current_period_end = x.current_period_end
                   ELSE a.status = 401 /\ ~a.ok

\* C14: a request to /auth/login or /auth/check with a non-empty email whose
\* query returns leaves the store as it was and is answered with the decision
\* on the user's row of greatest period end (null last); in every state the
\* two endpoints have the same possible answers for the same email.
C14_AuthDecidesOnGreatestRow ==
    [][/\ auth' # auth =>
            /\ users' = users /\ subscriptions' = subscriptions
            /\ webhook_events' = webhook_events
            /\ (auth'.email # NULL /\ auth'.status # HandlerFailed)
                  => DecidedOnGreatest(auth')
       /\ \A em \in EmailParams :
             authLogin(users, subscriptions, em, now)
                 = authCheck(users, subscriptions, em, now)]_vars

\* /auth/check granted access on the premium row although the user's other
\* row has a null period end
C14_Witness ==
    /\ auth.endpoint = "check" /\ auth.status = 200 /\ auth.plan = "premium"
    /\ \E x \in subscriptions :
          x.stripe_subscription_id = "sub_1" /\ x.current_period_end = NullTs

\* app.get("/get-plan") of the folded variants: the JSON body for the email
\* parameter, 400 without one
getPlan(us, emailParam) ==
    LET email == IF emailParam = NULL THEN "" ELSE toLowerCase(emailParam)
    IN  IF email = "" THEN [status |-> 400, plan |-> NULL]
        ELSE IF \E u \in us : u.email = email
        THEN [status |-> 200, plan |-> (CHOOSE u \in us : u.email = email).plan]
        ELSE [status |-> 200, plan |-> "free"]

\* C15: user identity is case-insensitive: the store holds no two user rows
\* whose emails differ only in letter case, and a user is found under its
\* address in any letter case: get-plan reports its plan (folded variant),
\* auth/check and auth/login select its subscription rows (subscription-table
\* variants).
C15_CaseInsensitiveIdentity ==
    /\ \A a, b \in users : toLowerCase(a.email) = toLowerCase(b.email) => a = b
    /\ \A u \in users, em \in Emails :
          toLowerCase(em) = toLowerCase(u.email) =>
              /\ variant = "folded" => getPlan(users, em).plan = u.plan
              /\ variant \in TableVariants =>
                    { x \in subscriptions : x.user_id = u.id }
                        \subseteq JoinRows(users, subscriptions, toLowerCase(em))

\* The plan the folded server is meant to store for a subscription
\* created/updated event: the normalized metadata plan when present, else by
\* the first item's price id among the configured ids of the mode.
ResolvedPlan(e, mode) ==
    IF e.plan # NULL
    THEN IF toLowerCase(e.plan) \in {"starter", "premium"}
         THEN toLowerCase(e.plan) ELSE "free"
    ELSE IF e.price \in {"price_premium_eur_" \o mode, "price_premium_dkk_" \o mode}
    THEN "premium"
    ELSE IF e.price \in {"price_starter_eur_" \o mode, "price_starter_dkk_" \o mode}
    THEN "starter"
    ELSE "free"

\* C16: once the folded server has answered 200 to a verified subscription
\* created/updated event whose customer has an email, the user of that email
\* carries the plan resolved from the event: normalized metadata plan, else
\* premium/starter by the price id of the current mode, else free.
C16_SubscriptionEventStoresResolvedPlan ==
    (Settled /\ last.ev \in PlanEventIds) =>
        \E u \in users :
            /\ u.email = CustomerEmail(Ev(last.ev).customer)
            /\ u.plan = ResolvedPlan(Ev(last.ev), STRIPE_MODE(variant, env))

C16_Witness ==
    /\ Settled
    /\ last.ev = "evt_p_premium_dkk"
    /\ STRIPE_MODE(variant, env) = "test"
    /\ \E u \in users : u.email = "a@x.com" /\ u.plan = "premium"

\* a checkout-completed delivery that carries an email, a plan and a
\* subscription id, being handled by the subscription-table handler of part_000
CheckoutInHand(p) ==
    /\ variant = "subtable"
    /\ req[p].pc \notin {"idle", "done"}
    /\ req[p].verified
    /\ IsCheckout(Ev(req[p].ev))
    /\ Ev(req[p].ev).email # NULL
    /\ Ev(req[p].ev).plan # NULL
    /\ Ev(req[p].ev).subscription # NULL
    /\ req'[p] # req[p]

\* C17: in the subscription-table handler a verified checkout-completed event
\* with email e, plan p and subscription s, whose provider and store calls
\* return, ends with exactly one user row for e, exactly one subscription row
\* for s linked to that user with plan p and the provider's status and period
\* end, one welcome email attempt made by the delivery, and response 200.
C17_CheckoutEndToEnd ==
    [][\A p \in Procs :
        /\ (CheckoutInHand(p) /\ req[p].pc # "mail") =>
              mailLog' = mailLog
        /\ (CheckoutInHand(p) /\ req[p].pc = "mail") =>
              LET e == Ev(req[p].ev)
                  us == { u \in users' : u.email = e.email }
                  xs == { x \in subscriptions' :
                            x.stripe_subscription_id = e.subscription }
              IN  /\ last'.ev = req[p].ev /\ last'.status = Received
                  /\ mailLog' = [mailLog EXCEPT ![e.id] = @ + 1]
                  /\ Cardinality(us) = 1
                  /\ Cardinality(xs) = 1
                  /\ \A u \in us, x \in xs :
                        /\ x.user_id = u.id
                        /\ x.plan = e.plan
                        /\ x.status = req[p].sub_status
                        /\ x.current_period_end =
                              (IF req[p].sub_period_end = NoSec THEN NullTs
                               ELSE req[p].sub_period_end)
      ]_vars

C17_Witness ==
    /\ Settled
    /\ variant = "subtable"
    /\ last.ev = "evt_co"
    /\ "mail" \in last.threw
    /\ mailLog["evt_co"] = 2
    /\ \E x \in subscriptions :
          /\ x.stripe_subscription_id = "sub_1"
          /\ x.status = "canceled"
          /\ x.plan = "starter"
    /\ Cardinality(users) = 2

\* C18: in the subscription-table handlers, once a verified subscription
\* created or updated event has been answered 200, the row of its subscription
\* id exists (whether or not it existed before) and carries the event's
\* status and period end and the plan resolved from its metadata or price id.
C18_SubscriptionEventUpsertsRow ==
    (/\ Settled
     /\ variant \in TableVariants
     /\ (IsCreated(Ev(last.ev)) \/ IsUpdated(Ev(last.ev)))) =>
        LET e == Ev(last.ev)
        IN  \E x \in subscriptions :
                /\ x.stripe_subscription_id = e.subscription
                /\ x.status = e.status
                /\ x.current_period_end = e.period_end
                /\ x.plan = ResolvedPlan(e, STRIPE_MODE(variant, env))

\* The users table after the part_002 handler has processed event `id` on
\* the table `us` alone, every call returning.
HandledAlone(us, id) ==
    LET e == Ev(id)
        email == IF IsCheckout(e) THEN SessionEmail("folded2", e)
                 ELSE IF e.customer # NULL THEN CustomerEmail(e.customer)
                 ELSE NULL
        a == UpsertUserArgs(e, email)
    IN  IF IsCheckout(e) \/ IsCreated(e) \/ IsUpdated(e) \/ IsDeleted(e)
        THEN upsertUserLang(us, a.email, a.plan,
                            UpsertUserLangArg(e, getUserLangByEmail(us, email)),
                            a.customerId, a.subscriptionId)
        ELSE us

\* C19: when the first two deliveries of the part_002 handler, for two
\* different events, have both been answered 200, the users table is the one
\* that handling the two events one after the other, in one of the two
\* orders, leaves: no interleaving of their store calls gives another result.
C19_ConcurrentEqualsSequential ==
    (/\ variant = "folded2"
     /\ NoneInFlight
     /\ delivered = 2
     /\ Cardinality(acked) = 2) =>
        \E e1, e2 \in acked :
            /\ e1 # e2
            /\ users = HandledAlone(HandledAlone({}, e1), e2)

\* C20: a delivery that has ended was answered with 200, 400 or 500; none
\* ends without a response, also when the signing secret of the configured
\* mode is not set.
C20_EveryDeliveryAnswered ==
    last.pc = "done" => last.status \in {Received, SignatureFailed, HandlerFailed}

\* the plan or the currency of the latest checkout request is not one of
\* those on sale, after lower-casing
InvalidCheckoutRequest ==
    \/ checkout.plan = NULL
    \/ toLowerCase(checkout.plan) \notin {"starter", "premium"}
    \/ checkout.currency = NULL
    \/ toLowerCase(checkout.currency) \notin {"eur", "dkk"}

\* C21: every create-checkout-session handler answers 400 and creates no
\* checkout session when the requested plan is not starter or premium or the
\* requested currency is not eur or dkk, after lower-casing.
C21_InvalidCheckoutRejected ==
    (checkout.asked /\ InvalidCheckoutRequest) =>
        (checkout.status = 400 /\ checkout.price = NULL)

StoredPlans == {"free", "starter", "premium"}

\* C22: in every reachable store state every stored plan (users.plan in the
\* folded-user handler, subscriptions.plan in the subscription-table
\* handlers) is one of free, starter, premium.
C22_StoredPlanEnumerated ==
    /\ variant \in FoldedVariants => \A u \in users : u.plan \in StoredPlans
    /\ variant \in TableVariants => \A x \in subscriptions : x.plan \in StoredPlans

\* the stage of server.js at which reconciliation of event e starts, "done"
\* when the event asks for none
ReconciliationEntry(e, email) ==
    IF IsCheckout(e) THEN (IF email # NULL THEN "upsertUser" ELSE "done")
    ELSE IF IsCreated(e) \/ IsUpdated(e) \/ IsDeleted(e)
    THEN (IF e.customer # NULL THEN "lookup" ELSE "done")
    ELSE "done"

\* C23: in server.js a throw of the ledger insert is swallowed: the handler
\* goes on to reconciliation of the verified event exactly as after a
\* successful insert, and the response is 200 when reconciliation succeeds
\* and 500 when one of its calls throws.
C23_LedgerFailureSwallowed ==
    [][\A p \in Procs :
        (variant = "folded" /\ req[p].pc \notin {"idle", "done"} /\ req'[p] # req[p]) =>
            /\ (req[p].pc = "ledger" /\ "ledger" \in (IF req'[p].pc = "idle" THEN last'
                                                      ELSE req'[p]).threw) =>
                  LET entry == ReconciliationEntry(Ev(req[p].ev), req[p].email)
                  IN  IF entry = "done"
                      THEN req'[p].pc = "idle" /\ last'.status = Received
                      ELSE req'[p].pc = entry
            /\ (req'[p].pc = "idle" /\ "ledger" \in last'.threw) =>
                  last'.status =
                      (IF last'.threw \cap {"lookup", "upsertUser"} = {}
                       THEN Received ELSE HandlerFailed)
      ]_vars

C23_Witness ==
    /\ Settled
    /\ variant = "folded"
    /\ last.ev = "evt_co"
    /\ "ledger" \in last.threw
    /\ "upsertUser" \in last.did
    /\ webhook_events = {}
    /\ \E u \in users : u.email = "a@x.com" /\ u.plan = "starter"

\* the request of slot p after the step, whether it goes on or has ended
After(p) == IF req'[p].pc = "idle" THEN last' ELSE req'[p]

\* a step of the delivery in slot p of server.js
StepOf(p) == variant = "folded" /\ req[p].pc \notin {"idle", "done"} /\ req'[p] # req[p]

\* C24: within one delivery to POST /stripe-webhook of server.js the ledger
\* insert happens only after verification succeeded, the user mutation only
\* after the ledger attempt returned, the email attempt only after the
\* event's store mutation completed without error, and a 500 is sent only
\* after the ledger record attempt.
C24_StepOrder ==
    [][/\ \A p \in Procs :
            StepOf(p) =>
              /\ req[p].pc = "ledger" => req[p].verified
              /\ req[p].pc = "upsertUser" => "ledger" \in req[p].did
              /\ req[p].pc = "mail" =>
                    "upsertUser" \in req[p].did /\ "upsertUser" \notin req[p].threw
       /\ (variant = "folded" /\ last' # last /\ last'.status = HandlerFailed) =>
              "ledger" \in last'.did
      ]_vars

\* the variants whose configuration has a STRIPE_MODE switch
ModeVariants == FoldedVariants \cup TableVariants

\* C25: in every variant with a mode switch a delivery is verified only
\* against the webhook secret of the configured mode: the test secret in
\* test mode, the live secret in live mode.
C25_SecretOfConfiguredMode ==
    variant \in ModeVariants =>
        \A r \in Verified :
            r.sig = (IF STRIPE_MODE(variant, env) = "test" THEN SecretTest
                     ELSE SecretLive)

\* the user of email em has a subscription row that is active at time t
HasActiveRow(em, t) ==
    \E u \in users, x \in subscriptions :
        /\ u.email = em
        /\ x.user_id = u.id
        /\ toLowerCase(x.status) \in {"active", "trialing", "past_due"}
        /\ x.current_period_end # NullTs
        /\ x.current_period_end > t

\* C26: when the user has at least one subscription row with an allowed
\* status and a period end in the future, /auth/check and /auth/login answer
\* 200 for the user's email, whatever other rows the user has.
C26_ActiveRowGrantsAccess ==
    [][(/\ auth' # auth
        /\ auth'.email # NULL
        /\ auth'.status # HandlerFailed
        /\ HasActiveRow(toLowerCase(auth'.email), now)) =>
            auth'.status = 200
      ]_vars

\* users and subscriptions after one processing of event e on an empty store
\* in which every call returns; r holds the handler's locals (resolved
\* email, provider status and period end)
ProcessedOnce(v, e, r) ==
    IF v \in FoldedVariants
    THEN LET a == UpsertUserArgs(e, r.email)
         IN  <<IF IsCheckout(e) \/ IsCreated(e) \/ IsUpdated(e) \/ IsDeleted(e)
               THEN upsertUser({}, a.email, a.plan, a.customerId, a.subscriptionId)
               ELSE {},
               {}>>
    ELSE IF IsCheckout(e) /\ r.email # NULL /\ e.subscription # NULL
    THEN LET us == upsertUserByEmail({}, r.email)
         IN  <<us, upsertSubscription({}, ReturningId(us, r.email), e.subscription,
                                      SessionPlan(v, e), StoredStatus(v, r.sub_status),
                                      tsFromStripeUnixSeconds(r.sub_period_end))>>
    ELSE <<{}, {}>>

\* C27: when the first delivery of an event was answered 500 and the
\* provider redelivers the same event id, and this time every reconciliation
\* call returns, the event is reconciled again and users/subscriptions equal
\* what one successful processing of the event would have produced, whatever
\* the failed attempt had already written.
C27_RedeliveryAfter500Reconciles ==
    [][\A p \in Procs :
        (/\ variant \in StoreVariants
         /\ delivered = 2
         /\ last.pc = "done" /\ last.verified /\ last.status = HandlerFailed
         /\ req[p].pc \notin {"idle", "done"} /\ req'[p].pc = "idle"
         /\ last'.ev = last.ev
         /\ last'.status = Received) =>
            <<users', subscriptions'>> = ProcessedOnce(variant, Ev(last.ev), req[p])
      ]_vars

\* the second delivery of evt_co was answered 200 after its email; the first
\* had recorded the event and ended before the email: upsertUser had thrown
C27_Witness ==
    /\ Settled
    /\ variant = "folded"
    /\ delivered = 2
    /\ last.ev = "evt_co"
    /\ last.dup
    /\ "mail" \in last.did
    /\ mailLog["evt_co"] = 1
    /\ \E u \in users : u.email = "a@x.com" /\ u.plan = "starter"

\* C28: in part_000, once a checkout-completed and a subscription-deleted
\* delivery of the same subscription that were in flight together have both
\* been answered 200, the row of that subscription does not grant access.
C28_CancellationNotLost ==
    (NoneInFlight /\ acked = {"evt_co", "evt_del"}) =>
        \A x \in subscriptions :
            x.stripe_subscription_id = "sub_1" =>
                ~isAccessActiveRow(SelectedRow(x), now)

\* C29: in the folded-user handler of server.js no webhook step turns a
\* non-null stripe_customer_id or stripe_subscription_id of a user row into
\* null, and a subscription-deleted event sets the plan to free and leaves
\* the stored subscription id as it was.
C29_IdsNeverNulled ==
    [][variant = "folded" =>
        /\ \A u \in users : \E w \in users' :
              /\ w.email = u.email
              /\ u.stripe_customer_id # NULL => w.stripe_customer_id # NULL
              /\ u.stripe_subscription_id # NULL => w.stripe_subscription_id # NULL
        /\ \A p \in Procs :
              (/\ req[p].pc = "upsertUser"
               /\ IsDeleted(Ev(req[p].ev))
               /\ "upsertUser" \in After(p).did \ After(p).threw) =>
                  \A u \in users :
                      u.email = toLowerCase(req[p].email) =>
                          \E w \in users' :
                              /\ w.email = u.email
                              /\ w.plan = "free"
                              /\ w.stripe_subscription_id = u.stripe_subscription_id
      ]_vars

C29_Witness ==
    /\ Settled
    /\ variant = "folded"
    /\ last.ev = "evt_del"
    /\ \E u \in users :
          /\ u.email = "a@x.com"
          /\ u.plan = "free"
          /\ u.stripe_subscription_id = "sub_1"
          /\ u.stripe_customer_id = "cus_1"

\* the plan the folded server stores for the customer of event id when it
\* processes the event on an empty store
PlanStoredBy(id) ==
    LET e == Ev(id)
        a == UpsertUserArgs(e, CustomerEmail(e.customer))
    IN  getPlan(upsertUser({}, a.email, a.plan, a.customerId, a.subscriptionId),
                a.email).plan

\* C30: in server.js the plan stored by a subscription created/updated event
\* depends on its plan metadata and first price id only: after the event is
\* answered 200, GET /get-plan reports the plan that any event with the same
\* metadata and price id stores, whatever the status and period end of
\* either.
C30_PlanIndependentOfStatus ==
    (Settled /\ last.ev \in PlanEventIds) =>
        \A id \in PlanEventIds :
            (Ev(id).plan = Ev(last.ev).plan /\ Ev(id).price = Ev(last.ev).price) =>
                /\ getPlan(users, CustomerEmail(Ev(last.ev).customer)).plan
                      = PlanStoredBy(id)
                /\ \E u \in users : u.plan = PlanStoredBy(id)

C30_Witness ==
    /\ Settled
    /\ last.ev = "evt_p_premium_dkk_canceled"
    /\ STRIPE_MODE(variant, env) = "test"
    /\ getPlan(users, "A@x.com").plan = "premium"
    /\ PlanStoredBy("evt_p_premium_dkk") = "premium"

====
